---- MODULE Spec2Model ----
(***************************************************************************)
(* A model of the wardrobe application (src/app.py): the JSON-backed       *)
(* catalog kept in the Streamlit session, the image directory, the AI      *)
(* analyzers' response handling, the add-item form and the outfit          *)
(* generators.                                                             *)
(*                                                                         *)
(* Python values that json reads and writes are modelled as tagged tuples  *)
(* (null, str, num, list, dict); a dict is the sequence of its             *)
(* <<key, value>> pairs in insertion order.  Catalog items and saved       *)
(* outfits are TLA+ records with the source's field names.                 *)
(*                                                                         *)
(* Specifications:                                                         *)
(*   Spec         one session working on the catalog with manual entry     *)
(*   SpecAnalyze  the Add Clothes page with the AI analyzers               *)
(*   SpecOutfit   generate_random_outfit / generate_smart_outfit as        *)
(*                functions of a catalog, the filters and the random draws *)
(*   SpecFence    the analyzers' clean-up of the response text             *)
(*   SpecStore    save_wardrobe / load_wardrobe on the data file           *)
(***************************************************************************)
EXTENDS Integers, Sequences, FiniteSets, TLC

VARIABLES
    wardrobe,        \* st.session_state.wardrobe: [items, outfits]
    disk,            \* DATA_FILE: NoFile or the JSON text (as tokens)
    images,          \* the files of IMAGES_DIR (set of paths)
    current_outfit,  \* st.session_state.current_outfit: None or a mapping
    confirm_delete,  \* st.session_state.confirm_delete
    ai_analysis,     \* st.session_state.ai_analysis
    tag_analysis,    \* st.session_state.tag_analysis
    clock,           \* datetime.now(), in whole seconds
    error,           \* the st.error texts of the last script run (a set)
    fault,           \* the unhandled exception of the last script run ("" if none)
    http_log,        \* the requests httpx.post sent during the last script run
    call,            \* SpecOutfit: the arguments of the last generator call
    random_outfit,   \* SpecOutfit: what generate_random_outfit returned
    smart_outfit,    \* SpecOutfit: what generate_smart_outfit returned
    content,         \* SpecFence: the response text
    cleaned,         \* SpecFence: the text handed to json.loads
    loaded,          \* SpecStore: what load_wardrobe returned
    store_pc         \* SpecStore: what has been done to the data file

vars == <<wardrobe, disk, images, current_outfit, confirm_delete, ai_analysis,
          tag_analysis, clock, error, fault, http_log, call, random_outfit,
          smart_outfit, content, cleaned, loaded, store_pc>>

sessionVars == <<wardrobe, disk, images, current_outfit, confirm_delete,
                 ai_analysis, tag_analysis, clock, error, fault, http_log>>
outfitVars == <<call, random_outfit, smart_outfit>>
fenceVars == <<content, cleaned>>
storeVars == <<loaded, store_pc>>

(***************************************************************************)
(* Configuration and the fixed vocabularies.                               *)
(***************************************************************************)
IMAGES_DIR == "clothing_images"

CATEGORIES == <<"Top", "Bottom", "Shoes", "Outerwear", "Accessory", "Dress/Jumpsuit">>
COLORS == <<"Black", "White", "Gray", "Navy", "Blue", "Red", "Green", "Brown",
            "Beige", "Pink", "Purple", "Orange", "Yellow", "Multi">>
STYLES == <<"Casual", "Formal", "Business", "Streetwear", "Athleisure",
            "Smart Casual", "Bohemian", "Minimalist">>
OCCASIONS == <<"Everyday", "Work", "Date Night", "Party", "Workout", "Outdoor",
               "Formal Event", "Loungewear">>
SEASONS == <<"Spring", "Summer", "Fall", "Winter", "All Season">>

Range(s) == {s[i] : i \in 1..Len(s)}

\* list.index(x): the first position of x (0-based, as Python counts).
RECURSIVE IndexFrom(_, _, _)
IndexFrom(s, x, i) ==
    IF s[i] = x THEN i - 1 ELSE IndexFrom(s, x, i + 1)

(***************************************************************************)
(* Python values as json sees them.                                        *)
(***************************************************************************)
None == <<"null">>
JStr(s) == <<"str", s>>
JNum(n) == <<"num", n>>
JList(elems) == <<"list", elems>>
JDict(pairs) == <<"dict", pairs>>

TagOf(v) == v[1]
IsDict(v) == TagOf(v) = "dict"

JStrList(strs) == JList([i \in 1..Len(strs) |-> JStr(strs[i])])

\* bool(v): None, "", 0, [] and {} are false.
Truthy(v) ==
    CASE TagOf(v) = "null" -> FALSE
      [] TagOf(v) = "str"  -> v[2] # ""
      [] TagOf(v) = "num"  -> v[2] # 0
      [] OTHER             -> Len(v[2]) > 0

\* d[key] of a dict that has the key.
RECURSIVE PairsGet(_, _, _)
PairsGet(pairs, key, i) ==
    IF pairs[i][1] = key THEN pairs[i][2] ELSE PairsGet(pairs, key, i + 1)

HasKey(d, key) == \E i \in 1..Len(d[2]) : d[2][i][1] = key

\* dict.get(key, default)
DictGet(d, key, default) ==
    IF HasKey(d, key) THEN PairsGet(d[2], key, 1) ELSE default

\* d[key] = value: an existing key keeps its place, a new one goes last.
DictSet(pairs, key, value) ==
    IF \E i \in 1..Len(pairs) : pairs[i][1] = key
    THEN [i \in 1..Len(pairs) |->
            IF pairs[i][1] = key THEN <<key, value>> ELSE pairs[i]]
    ELSE Append(pairs, <<key, value>>)

(***************************************************************************)
(* json.dump and json.load.  The file's text is the sequence of JSON       *)
(* tokens: punctuation <<"p", c>>, the literal <<"lit", "null">>, strings  *)
(* <<"str", s>> and numbers <<"num", n>> (white space and string escapes   *)
(* are below this model).                                                  *)
(***************************************************************************)
P(c) == <<"p", c>>

RECURSIVE json_dumps(_)
RECURSIVE DumpElems(_, _)
RECURSIVE DumpPairs(_, _)

DumpElems(elems, i) ==
    IF i > Len(elems) THEN <<>>
    ELSE (IF i > 1 THEN <<P(",")>> ELSE <<>>)
         \o json_dumps(elems[i]) \o DumpElems(elems, i + 1)

DumpPairs(pairs, i) ==
    IF i > Len(pairs) THEN <<>>
    ELSE (IF i > 1 THEN <<P(",")>> ELSE <<>>)
         \o <<JStr(pairs[i][1]), P(":")>> \o json_dumps(pairs[i][2])
         \o DumpPairs(pairs, i + 1)

\* Mutant: None is written as the string "null".
json_dumps_NoneAsString(v) ==
    CASE TagOf(v) = "null" -> <<JStr("null")>>
      [] TagOf(v) = "str"  -> <<v>>
      [] TagOf(v) = "num"  -> <<v>>
      [] TagOf(v) = "list" -> <<P("[")>> \o DumpElems(v[2], 1) \o <<P("]")>>
      [] TagOf(v) = "dict" -> <<P("{")>> \o DumpPairs(v[2], 1) \o <<P("}")>>

json_dumps(v) ==
    CASE TagOf(v) = "null" -> << <<"lit", "null">> >>
      [] TagOf(v) = "str"  -> <<v>>
      [] TagOf(v) = "num"  -> <<v>>
      [] TagOf(v) = "list" -> <<P("[")>> \o DumpElems(v[2], 1) \o <<P("]")>>
      [] TagOf(v) = "dict" -> <<P("{")>> \o DumpPairs(v[2], 1) \o <<P("}")>>

\* The decoder: a parse is [ok, v, rest]; ok = FALSE is json.JSONDecodeError.
ParseError == [ok |-> FALSE, v |-> None, rest |-> <<>>]
Parsed(v, rest) == [ok |-> TRUE, v |-> v, rest |-> rest]
IsP(tok, c) == tok[1] = "p" /\ tok[2] = c

RECURSIVE ParseValue(_)
RECURSIVE ParseElems(_, _)
RECURSIVE ParseMembers(_, _)

\* After "[" or ",": a value, then "," and more, or "]".
ParseElems(toks, acc) ==
    LET r == ParseValue(toks) IN
    IF ~r.ok \/ r.rest = <<>> THEN ParseError
    ELSE IF IsP(r.rest[1], "]") THEN Parsed(JList(Append(acc, r.v)), Tail(r.rest))
    ELSE IF IsP(r.rest[1], ",") THEN ParseElems(Tail(r.rest), Append(acc, r.v))
    ELSE ParseError

\* After "{" or ",": "key" : value, then "," and more, or "}".
ParseMembers(toks, acc) ==
    IF Len(toks) < 2 \/ toks[1][1] # "str" \/ ~IsP(toks[2], ":") THEN ParseError
    ELSE LET r == ParseValue(SubSeq(toks, 3, Len(toks)))
             members == DictSet(acc, toks[1][2], r.v)
         IN  IF ~r.ok \/ r.rest = <<>> THEN ParseError
             ELSE IF IsP(r.rest[1], "}") THEN Parsed(JDict(members), Tail(r.rest))
             ELSE IF IsP(r.rest[1], ",") THEN ParseMembers(Tail(r.rest), members)
             ELSE ParseError

ParseValue(toks) ==
    IF toks = <<>> THEN ParseError
    ELSE LET tok == toks[1]
             rest == Tail(toks)
         IN  CASE tok[1] = "lit" -> Parsed(None, rest)
               [] tok[1] = "str" -> Parsed(tok, rest)
               [] tok[1] = "num" -> Parsed(tok, rest)
               [] IsP(tok, "[") ->
                    IF rest # <<>> /\ IsP(rest[1], "]")
                    THEN Parsed(JList(<<>>), Tail(rest))
                    ELSE ParseElems(rest, <<>>)
               [] IsP(tok, "{") ->
                    IF rest # <<>> /\ IsP(rest[1], "}")
                    THEN Parsed(JDict(<<>>), Tail(rest))
                    ELSE ParseMembers(rest, <<>>)
               [] OTHER -> ParseError

\* json.loads(text): [ok, v]; text after the value is an error too.
json_loads(toks) ==
    LET r == ParseValue(toks) IN
    IF r.ok /\ r.rest = <<>> THEN [ok |-> TRUE, v |-> r.v]
    ELSE [ok |-> FALSE, v |-> None]

(***************************************************************************)
(* The catalog.  An item and a saved outfit are records with the source's  *)
(* keys; tag_image_path and pattern hold a Python value (None, a str, or   *)
(* for pattern whatever the analyzer returned).                            *)
(***************************************************************************)
EmptyCatalog == [items |-> <<>>, outfits |-> <<>>]

\* DATA_FILE: whether os.path.exists finds it, and its text.
NoFile == [exists |-> FALSE, text |-> <<>>]
FileOf(text) == [exists |-> TRUE, text |-> text]

\* The dict the Add Clothes page builds, in its key order.
PyItem(item) ==
    JDict(<< <<"id", JStr(item.id)>>,
             <<"name", JStr(item.name)>>,
             <<"category", JStr(item.category)>>,
             <<"color", JStr(item.color)>>,
             <<"style", JStrList(item.style)>>,
             <<"occasions", JStrList(item.occasions)>>,
             <<"seasons", JStrList(item.seasons)>>,
             <<"image_path", JStr(item.image_path)>>,
             <<"tag_image_path", item.tag_image_path>>,
             <<"brand", JStr(item.brand)>>,
             <<"size", JStr(item.size)>>,
             <<"material", JStr(item.material)>>,
             <<"care_instructions", JStrList(item.care_instructions)>>,
             <<"pattern", item.pattern>>,
             <<"added_date", JStr(item.added_date)>> >>)

\* The dict the Generate Outfit page builds for a saved outfit.
PyOutfit(o) ==
    JDict(<< <<"id", JStr(o.id)>>,
             <<"name", JStr(o.name)>>,
             <<"items", JStrList(o.items)>>,
             <<"created_date", JStr(o.created_date)>> >>)

\* The catalog as the Python object json.dump is given.
PyCatalog(w) ==
    JDict(<< <<"items", JList([i \in 1..Len(w.items) |-> PyItem(w.items[i])])>>,
             <<"outfits", JList([i \in 1..Len(w.outfits) |-> PyOutfit(w.outfits[i])])>> >>)

\* Reading the records back out of a loaded Python object.
StrsOf(v) == [i \in 1..Len(v[2]) |-> v[2][i][2]]

ItemOf(d) ==
    [id |-> DictGet(d, "id", None)[2],
     name |-> DictGet(d, "name", None)[2],
     category |-> DictGet(d, "category", None)[2],
     color |-> DictGet(d, "color", None)[2],
     style |-> StrsOf(DictGet(d, "style", None)),
     occasions |-> StrsOf(DictGet(d, "occasions", None)),
     seasons |-> StrsOf(DictGet(d, "seasons", None)),
     image_path |-> DictGet(d, "image_path", None)[2],
     tag_image_path |-> DictGet(d, "tag_image_path", JStr("missing")),
     brand |-> DictGet(d, "brand", None)[2],
     size |-> DictGet(d, "size", None)[2],
     material |-> DictGet(d, "material", None)[2],
     care_instructions |-> StrsOf(DictGet(d, "care_instructions", None)),
     pattern |-> DictGet(d, "pattern", JStr("missing")),
     added_date |-> DictGet(d, "added_date", None)[2]]

OutfitOf(d) ==
    [id |-> DictGet(d, "id", None)[2],
     name |-> DictGet(d, "name", None)[2],
     items |-> StrsOf(DictGet(d, "items", None)),
     created_date |-> DictGet(d, "created_date", None)[2]]

CatalogOf(v) ==
    LET its == DictGet(v, "items", None)[2]
        outs == DictGet(v, "outfits", None)[2]
    IN  [items |-> [i \in 1..Len(its) |-> ItemOf(its[i])],
         outfits |-> [i \in 1..Len(outs) |-> OutfitOf(outs[i])]]

\* save_wardrobe(data): the text written to DATA_FILE.
save_wardrobe(data) == json_dumps(PyCatalog(data))

\* load_wardrobe(): the file's catalog, or the empty one when there is no file.
\* (The file is only ever written by save_wardrobe, so json.load succeeds.)
load_wardrobe(file) ==
    IF file.exists THEN CatalogOf(json_loads(file.text).v)
    ELSE [items |-> <<>>, outfits |-> <<>>]

(***************************************************************************)
(* The outfit generators.  An outfit is a mapping from category to item.   *)
(* The random source is an argument: random.random() in hundredths, and    *)
(* for random.choice one draw per category.                                *)
(***************************************************************************)
FallbackBelow == 3
DressAbove == 50
OuterwearAbove == 60
AccessoryAbove == 50

\* [item for item in items if item["category"] == category]
OfCategory(items, category) ==
    SelectSeq(items, LAMBDA item : item.category = category)

\* random.choice(seq) with draw n
choice(seq, n) == seq[((n - 1) % Len(seq)) + 1]

\* Mutant: the item is drawn from the whole catalog, not from the category.
generate_random_outfit_AnyItem(w, include_categories, pick) ==
    LET items == w.items
        keys == {c \in Range(include_categories) : OfCategory(items, c) # <<>>}
    IN  [c \in keys |-> choice(items, pick[c])]

generate_random_outfit(w, include_categories, pick) ==
    LET items == w.items
        keys == {c \in Range(include_categories) : OfCategory(items, c) # <<>>}
    IN  [c \in keys |-> choice(OfCategory(items, c), pick[c])]

\* Mutant: an item passes when it matches either filter.
FilterItems_EitherFilter(items, occasion, season) ==
    IF Truthy(occasion) /\ Truthy(season)
    THEN SelectSeq(items,
                   LAMBDA item : \/ occasion[2] \in Range(item.occasions)
                                 \/ season[2] \in Range(item.seasons)
                                 \/ "All Season" \in Range(item.seasons))
    ELSE IF Truthy(occasion)
    THEN SelectSeq(items, LAMBDA item : occasion[2] \in Range(item.occasions))
    ELSE IF Truthy(season)
    THEN SelectSeq(items,
                   LAMBDA item : \/ season[2] \in Range(item.seasons)
                                 \/ "All Season" \in Range(item.seasons))
    ELSE items

\* The two filters of generate_smart_outfit.
FilterItems(items, occasion, season) ==
    LET byOccasion ==
            IF Truthy(occasion)
            THEN SelectSeq(items, LAMBDA item : occasion[2] \in Range(item.occasions))
            ELSE items
    IN  IF Truthy(season)
        THEN SelectSeq(byOccasion,
                       LAMBDA item : \/ season[2] \in Range(item.seasons)
                                     \/ "All Season" \in Range(item.seasons))
        ELSE byOccasion

\* Mutant: no fall back to the full catalog.
CandidatePool_NoFallback(w, occasion, season) ==
    FilterItems(w.items, occasion, season)

\* The items the slots are filled from: the filtered ones, or all of them.
CandidatePool(w, occasion, season) ==
    LET items == FilterItems(w.items, occasion, season)
    IN  IF Len(items) < FallbackBelow THEN w.items ELSE items

\* Mutant: the Top and the Bottom are added beside a Dress/Jumpsuit too.
PickSlots_DressWithSeparates(items, rnd) ==
    LET dresses == OfCategory(items, "Dress/Jumpsuit")
        useDress == dresses # <<>> /\ rnd.dress > DressAbove
        keys == (IF useDress THEN {"Dress/Jumpsuit"} ELSE {})
                \cup {c \in {"Top", "Bottom", "Shoes"} : OfCategory(items, c) # <<>>}
    IN  [c \in keys |-> choice(OfCategory(items, c), rnd.pick[c])]

\* The slot selection of generate_smart_outfit.
PickSlots(items, rnd) ==
    LET dresses == OfCategory(items, "Dress/Jumpsuit")
        tops == OfCategory(items, "Top")
        bottoms == OfCategory(items, "Bottom")
        shoes == OfCategory(items, "Shoes")
        outerwear == OfCategory(items, "Outerwear")
        accessories == OfCategory(items, "Accessory")
        useDress == dresses # <<>> /\ rnd.dress > DressAbove
        keys == (IF useDress THEN {"Dress/Jumpsuit"}
                 ELSE (IF tops # <<>> THEN {"Top"} ELSE {})
                      \cup (IF bottoms # <<>> THEN {"Bottom"} ELSE {}))
                \cup (IF shoes # <<>> THEN {"Shoes"} ELSE {})
                \cup (IF outerwear # <<>> /\ rnd.outerwear > OuterwearAbove
                      THEN {"Outerwear"} ELSE {})
                \cup (IF accessories # <<>> /\ rnd.accessory > AccessoryAbove
                      THEN {"Accessory"} ELSE {})
    IN  [c \in keys |-> choice(OfCategory(items, c), rnd.pick[c])]

generate_smart_outfit(w, occasion, season, rnd) ==
    PickSlots(CandidatePool(w, occasion, season), rnd)

\* The order in which generate_smart_outfit inserts its keys.
SlotOrder == <<"Dress/Jumpsuit", "Top", "Bottom", "Shoes", "Outerwear", "Accessory">>

\* list(outfit.values()) of a generated outfit
OutfitValues(outfit) ==
    LET keys == SelectSeq(SlotOrder, LAMBDA c : c \in DOMAIN outfit)
    IN  [i \in 1..Len(keys) |-> outfit[keys[i]]]

(***************************************************************************)
(* What the Add Clothes page stores for an item (new_item).                *)
(***************************************************************************)
\* save_image's path: IMAGES_DIR/<item_id>.<extension>
ImagePath(item_id, extension) == IMAGES_DIR \o "/" \o item_id \o "." \o extension

new_item(item_id, form, image_path, tag_image_path, pattern, now) ==
    [id |-> item_id,
     name |-> form.name,
     category |-> form.category,
     color |-> form.color,
     style |-> form.style,
     occasions |-> form.occasions,
     seasons |-> form.seasons,
     image_path |-> image_path,
     tag_image_path |-> tag_image_path,
     brand |-> form.brand,
     size |-> form.size,
     material |-> form.material,
     care_instructions |-> form.care,
     pattern |-> pattern,
     added_date |-> now]

(***************************************************************************)
(* SpecOutfit: the generators applied to a catalog.                        *)
(***************************************************************************)
MaxGenItems == 4
MaxPick == 2

\* Items as the form would have stored them, over the fields the generators read.
GenItem(n, category, occasions, seasons) ==
    new_item("g" \o ToString(n),
             [name |-> category, category |-> category, color |-> "Black",
              style |-> <<"Casual">>, occasions |-> occasions, seasons |-> seasons,
              brand |-> "", size |-> "", material |-> "", care |-> <<>>],
             ImagePath("g" \o ToString(n), "jpg"), None, None, "T0")

GenItems ==
    << GenItem(1, "Top", <<"Everyday">>, <<"Summer">>),
       GenItem(2, "Top", <<"Work">>, <<"All Season">>),
       GenItem(3, "Bottom", <<"Everyday", "Work">>, <<"Summer", "Fall">>),
       GenItem(4, "Shoes", <<"Everyday">>, <<"Winter">>),
       GenItem(5, "Shoes", <<"Work">>, <<"All Season">>),
       GenItem(6, "Dress/Jumpsuit", <<"Work", "Party">>, <<"Summer">>),
       GenItem(7, "Outerwear", <<"Everyday">>, <<"Winter">>),
       GenItem(8, "Accessory", <<"Work">>, <<"All Season">>) >>

\* The catalogs: up to MaxGenItems of these items, in their order.
GenCatalogs ==
    {[items |-> SelectSeq(GenItems, LAMBDA item : item \in chosen), outfits |-> <<>>] :
        chosen \in {S \in SUBSET Range(GenItems) : Cardinality(S) <= MaxGenItems}}

GenOccasions == {None, JStr("Everyday"), JStr("Work"), JStr("Workout")}
GenSeasons == {None, JStr("Summer"), JStr("Winter")}
GenIncludes ==
    {<<>>, <<"Top">>, <<"Shoes", "Top">>, <<"Top", "Bottom", "Shoes">>,
     <<"Dress/Jumpsuit", "Shoes", "Accessory">>, <<"Bottom", "Bottom">>, CATEGORIES}

\* random.random() in hundredths: at and on either side of the thresholds.
Draws == {50, 60, 61}
\* random.choice: a draw for each category (the draw only matters for a
\* category with more than one item: Top and Shoes in GenItems).
Picks ==
    {[c \in Range(CATEGORIES) |-> IF c \in DOMAIN f THEN f[c] ELSE 1] :
        f \in [{"Top", "Shoes"} -> 1..MaxPick]}
Rnds == [dress : Draws, outerwear : Draws, accessory : Draws, pick : Picks]

NoCall == [fn |-> "none", include |-> <<>>, occasion |-> None, season |-> None]

\* One call per catalog drawn: a later call would not depend on an earlier one.
CallRandom(include_categories, pick) ==
    /\ call.fn = "none"
    /\ random_outfit' = generate_random_outfit(wardrobe, include_categories, pick)
    /\ call' = [fn |-> "random", include |-> include_categories,
                occasion |-> None, season |-> None]
    /\ UNCHANGED <<smart_outfit, sessionVars, fenceVars, storeVars>>

CallSmart(occasion, season, rnd) ==
    /\ call.fn = "none"
    /\ smart_outfit' = generate_smart_outfit(wardrobe, occasion, season, rnd)
    /\ call' = [fn |-> "smart", include |-> <<>>,
                occasion |-> occasion, season |-> season]
    /\ UNCHANGED <<random_outfit, sessionVars, fenceVars, storeVars>>

\* The session before any interaction (lines 329-334), and the rest at rest.
NoOutfit == <<>>
SomeOutfit(outfit) == <<outfit>>

SessionStart ==
    /\ disk = NoFile
    /\ images = {}
    /\ current_outfit = NoOutfit
    /\ confirm_delete = FALSE
    /\ ai_analysis = None
    /\ tag_analysis = None
    /\ clock = 0
    /\ error = {}
    /\ fault = ""
    /\ http_log = <<>>

OutfitIdle == call = NoCall /\ random_outfit = <<>> /\ smart_outfit = <<>>
FenceIdle ==
    /\ content = ""
    /\ cleaned = [done |-> FALSE, text |-> ""]
StoreIdle == loaded = EmptyCatalog /\ store_pc = "idle"

InitOutfit ==
    /\ wardrobe \in GenCatalogs
    /\ SessionStart
    /\ OutfitIdle
    /\ FenceIdle
    /\ StoreIdle

NextOutfit ==
    \/ \E include_categories \in GenIncludes, pick \in Picks :
            CallRandom(include_categories, pick)
    \/ \E occasion \in GenOccasions, season \in GenSeasons, rnd \in Rnds :
            CallSmart(occasion, season, rnd)

SpecOutfit == InitOutfit /\ [][NextOutfit]_vars

HasCategory(items, category) == \E i \in 1..Len(items) : items[i].category = category

\* C1: generate_random_outfit returns a mapping whose keys are requested
\* categories, each key holding one catalog item of exactly that category; a
\* requested category is missing if and only if the catalog has no item of it.
C1_RandomOutfitPerCategory ==
    call.fn = "random" =>
        /\ DOMAIN random_outfit \subseteq Range(call.include)
        /\ \A c \in DOMAIN random_outfit :
              /\ random_outfit[c] \in Range(wardrobe.items)
              /\ random_outfit[c].category = c
        /\ \A c \in Range(call.include) :
              c \notin DOMAIN random_outfit <=> ~HasCategory(wardrobe.items, c)

C1_Witness ==
    /\ call.fn = "random"
    /\ \E c \in Range(call.include) : c \in DOMAIN random_outfit
    /\ \E c \in Range(call.include) : c \notin DOMAIN random_outfit
    /\ \E c \in DOMAIN random_outfit :
          \E i \in 1..Len(wardrobe.items) : wardrobe.items[i].category # c

\* The positions of the items that pass the filters given (None: not given).
MatchesOccasion(item, occasion) ==
    occasion = None \/ occasion[2] \in Range(item.occasions)
MatchesSeason(item, season) ==
    \/ season = None
    \/ season[2] \in Range(item.seasons)
    \/ "All Season" \in Range(item.seasons)
Matching(items, occasion, season) ==
    {i \in 1..Len(items) :
        MatchesOccasion(items[i], occasion) /\ MatchesSeason(items[i], season)}

\* An outfit that draws on all of these items: each entry is one of them, and
\* the Shoes entry is there exactly when they include Shoes.
DrawnFrom(outfit, items, positions) ==
    /\ \A c \in DOMAIN outfit : \E i \in positions : outfit[c] = items[i]
    /\ "Shoes" \in DOMAIN outfit <=> \E i \in positions : items[i].category = "Shoes"

\* C2: the candidate pool of generate_smart_outfit is the items matching the
\* occasion filter and the season filter; with 3 or more such items the outfit
\* is drawn from them, with fewer it is drawn from the full catalog.
C2_SmartPoolAndFallback ==
    call.fn = "smart" =>
        LET items == wardrobe.items
            pool == Matching(items, call.occasion, call.season)
        IN  IF Cardinality(pool) >= 3
            THEN DrawnFrom(smart_outfit, items, pool)
            ELSE DrawnFrom(smart_outfit, items, 1..Len(items))

C2_Witness ==
    /\ call.fn = "smart"
    /\ call.occasion # None
    /\ call.season # None
    /\ Cardinality(Matching(wardrobe.items, call.occasion, call.season)) >= 3
    /\ Cardinality(Matching(wardrobe.items, call.occasion, call.season))
          < Len(wardrobe.items)
    /\ DOMAIN smart_outfit # {}

\* C3: with an occasion filter that no item matches, generate_smart_outfit
\* uses the whole catalog; the outfit is not empty when the catalog has 3 or
\* more items with a Top, a Bottom and Shoes, or a Dress/Jumpsuit and Shoes;
\* on an empty catalog the outfit is the empty mapping.
C3_FallbackOnNoMatch ==
    LET items == wardrobe.items IN
    (/\ call.fn = "smart"
     /\ call.occasion # None
     /\ Matching(items, call.occasion, None) = {})
    =>  /\ DrawnFrom(smart_outfit, items, 1..Len(items))
        /\ (/\ Len(items) >= 3
            /\ \/ /\ HasCategory(items, "Top")
                  /\ HasCategory(items, "Bottom")
                  /\ HasCategory(items, "Shoes")
               \/ /\ HasCategory(items, "Dress/Jumpsuit")
                  /\ HasCategory(items, "Shoes"))
           => DOMAIN smart_outfit # {}
        /\ items = <<>> => smart_outfit = <<>>

C3_Witness ==
    /\ call.fn = "smart"
    /\ call.occasion # None
    /\ Matching(wardrobe.items, call.occasion, None) = {}
    /\ Len(wardrobe.items) >= 3
    /\ HasCategory(wardrobe.items, "Top")
    /\ HasCategory(wardrobe.items, "Bottom")
    /\ HasCategory(wardrobe.items, "Shoes")
    /\ {"Top", "Bottom", "Shoes"} \subseteq DOMAIN smart_outfit

\* C4: a smart outfit never holds a Dress/Jumpsuit together with a Top or a
\* Bottom; without a Dress/Jumpsuit it holds a Top exactly when the pool has
\* one and a Bottom exactly when the pool has one; and it holds Shoes exactly
\* when the pool has Shoes.
C4_SlotsOfSmartOutfit ==
    call.fn = "smart" =>
        LET pool == CandidatePool(wardrobe, call.occasion, call.season)
            D == DOMAIN smart_outfit
        IN  /\ ~("Dress/Jumpsuit" \in D /\ ("Top" \in D \/ "Bottom" \in D))
            /\ "Dress/Jumpsuit" \notin D =>
                  /\ "Top" \in D <=> HasCategory(pool, "Top")
                  /\ "Bottom" \in D <=> HasCategory(pool, "Bottom")
            /\ "Shoes" \in D <=> HasCategory(pool, "Shoes")

C4_Witness ==
    /\ call.fn = "smart"
    /\ "Dress/Jumpsuit" \in DOMAIN smart_outfit
    /\ "Shoes" \in DOMAIN smart_outfit
    /\ HasCategory(CandidatePool(wardrobe, call.occasion, call.season), "Top")
    /\ HasCategory(CandidatePool(wardrobe, call.occasion, call.season), "Bottom")

(***************************************************************************)
(* SpecStore: save_wardrobe and load_wardrobe on the data file.            *)
(***************************************************************************)
MaxStoreItems == 2
MaxStoreOutfits == 1

StoreForm(category, style, care) ==
    [name |-> category, category |-> category, color |-> "Navy", style |-> style,
     occasions |-> <<"Everyday">>, seasons |-> <<"All Season">>,
     brand |-> "Acme", size |-> "", material |-> "", care |-> care]

\* Items as the Add Clothes page stores them: with and without a tag image,
\* a pattern and care instructions.
StoreItems ==
    { new_item("0_1000", StoreForm("Top", <<"Casual">>, <<>>),
               ImagePath("0_1000", "jpg"), None, None, "T0"),
      new_item("0_1000", StoreForm("Shoes", <<"Formal", "Business">>, <<"Wipe clean">>),
               ImagePath("0_1000", "png"), JStr(ImagePath("0_1000_tag", "jpg")),
               JStr("solid"), "T0"),
      new_item("1_1001", StoreForm("Bottom", <<>>, <<"Machine wash cold", "Tumble dry low">>),
               ImagePath("1_1001", "jpg"), None, JStr("striped"), "T1"),
      new_item("1_1000", StoreForm("Dress/Jumpsuit", <<"Bohemian">>, <<>>),
               ImagePath("1_1000", "webp"), JStr(ImagePath("1_1000_tag", "png")),
               None, "T1") }

StoreOutfits ==
    { [id |-> "outfit_0", name |-> "Monday", items |-> <<"0_1000", "1_1001">>,
       created_date |-> "T0"],
      [id |-> "outfit_1", name |-> "Gone", items |-> <<"9_9999">>,
       created_date |-> "T1"] }

SeqsUpTo(S, n) == UNION {[1..k -> S] : k \in 0..n}

StoreCatalogs ==
    {[items |-> its, outfits |-> outs] :
        its \in SeqsUpTo(StoreItems, MaxStoreItems),
        outs \in SeqsUpTo(StoreOutfits, MaxStoreOutfits)}

InitStore ==
    /\ wardrobe \in StoreCatalogs
    /\ SessionStart
    /\ OutfitIdle
    /\ FenceIdle
    /\ StoreIdle

\* save_wardrobe(wardrobe)
SaveFile ==
    /\ store_pc = "idle"
    /\ disk' = FileOf(save_wardrobe(wardrobe))
    /\ store_pc' = "saved"
    /\ UNCHANGED <<wardrobe, images, current_outfit, confirm_delete, ai_analysis,
                   tag_analysis, clock, error, fault, http_log, loaded,
                   outfitVars, fenceVars>>

\* load_wardrobe(), with or without a file
LoadFile ==
    /\ store_pc \in {"idle", "saved"}
    /\ loaded' = load_wardrobe(disk)
    /\ store_pc' = "loaded"
    /\ UNCHANGED <<sessionVars, outfitVars, fenceVars>>

NextStore == SaveFile \/ LoadFile

SpecStore == InitStore /\ [][NextStore]_vars

\* C7: save_wardrobe followed by load_wardrobe gives back the same items and
\* outfits, in the same order and with every field equal; load_wardrobe
\* without a file gives the empty catalog.
C7_SaveLoadRoundTrip ==
    store_pc = "loaded" =>
        IF disk.exists
        THEN /\ json_loads(disk.text).ok
             /\ loaded = wardrobe
        ELSE loaded = [items |-> <<>>, outfits |-> <<>>]

C7_Witness ==
    /\ store_pc = "loaded"
    /\ disk.exists
    /\ Len(loaded.items) = 2
    /\ Len(loaded.outfits) = 1
    /\ loaded.items[1].tag_image_path = None
    /\ loaded.items[2].tag_image_path # None
    /\ loaded.items[1] # loaded.items[2]

(***************************************************************************)
(* The analyzers' clean-up of the response text (lines 113-120, 174-181),  *)
(* on the text's characters.                                               *)
(***************************************************************************)
\* The backtick cannot stand in a string of this language: it is written ' here.
FENCE == "'''"
JSON_FENCE == "'''json"

IsSpace(c) == c \in {" ", "\n"}

startswith(s, prefix) ==
    Len(s) >= Len(prefix) /\ SubSeq(s, 1, Len(prefix)) = prefix
endswith(s, suffix) ==
    Len(s) >= Len(suffix) /\ SubSeq(s, Len(s) - Len(suffix) + 1, Len(s)) = suffix

\* s[n:] and s[:-n]
DropFirst(s, n) == SubSeq(s, n + 1, Len(s))
DropLast(s, n) == SubSeq(s, 1, Len(s) - n)

RECURSIVE lstrip(_)
lstrip(s) ==
    IF Len(s) > 0 /\ IsSpace(SubSeq(s, 1, 1)) THEN lstrip(DropFirst(s, 1)) ELSE s
RECURSIVE rstrip(_)
rstrip(s) ==
    IF Len(s) > 0 /\ IsSpace(SubSeq(s, Len(s), Len(s))) THEN rstrip(DropLast(s, 1)) ELSE s
strip(s) == rstrip(lstrip(s))

\* The text the analyzers hand to json.loads.
clean_response(text) ==
    LET c0 == strip(text)
        c1 == IF startswith(c0, JSON_FENCE) THEN DropFirst(c0, 7) ELSE c0
        c2 == IF startswith(c1, FENCE) THEN DropFirst(c1, 3) ELSE c1
        c3 == IF endswith(c2, FENCE) THEN DropLast(c2, 3) ELSE c2
    IN  strip(c3)

(***************************************************************************)
(* The analyzers (lines 82-125, 143-186).  A response is what httpx.post   *)
(* does: it raises (network error, timeout), or returns a status and, for  *)
(* 200, the text of the message content.                                   *)
(***************************************************************************)
\* The tokens json.loads scans in a text; what it cannot scan is a token the
\* decoder rejects.
BadToken == <<"bad">>
DIGITS == "0123456789"
IsDigit(c) == \E d \in 1..Len(DIGITS) : SubSeq(DIGITS, d, d) = c
DigitValue(c) == (CHOOSE d \in 1..Len(DIGITS) : SubSeq(DIGITS, d, d) = c) - 1

RECURSIVE NumberValue(_, _)
NumberValue(digits, acc) ==
    IF digits = "" THEN acc
    ELSE NumberValue(DropFirst(digits, 1), 10 * acc + DigitValue(SubSeq(digits, 1, 1)))

RECURSIVE Scan(_, _)
Scan(text, i) ==
    IF i > Len(text) THEN <<>>
    ELSE LET c == SubSeq(text, i, i) IN
         IF IsSpace(c) THEN Scan(text, i + 1)
         ELSE IF c \in {"{", "}", "[", "]", ",", ":"}
         THEN <<P(c)>> \o Scan(text, i + 1)
         ELSE IF c = "\""
         THEN LET closing == {j \in (i + 1)..Len(text) : SubSeq(text, j, j) = "\""}
              IN  IF closing = {} THEN <<BadToken>>
                  ELSE LET j == CHOOSE k \in closing : \A m \in closing : k <= m
                       IN  <<JStr(SubSeq(text, i + 1, j - 1))>> \o Scan(text, j + 1)
         ELSE IF startswith(DropFirst(text, i - 1), "null")
         THEN << <<"lit", "null">> >> \o Scan(text, i + 4)
         ELSE IF IsDigit(c)
         THEN LET others == {j \in i..Len(text) : ~IsDigit(SubSeq(text, j, j))}
                  end == IF others = {} THEN Len(text) + 1
                         ELSE CHOOSE k \in others : \A m \in others : k <= m
              IN  <<JNum(NumberValue(SubSeq(text, i, end - 1), 0))>> \o Scan(text, end)
         ELSE <<BadToken>>

HTTP_OK == 200

Raised == [raises |-> TRUE, status |-> 0, content |-> ""]
Responded(status, text) == [raises |-> FALSE, status |-> status, content |-> text]

\* What an analyzer returns, the st.error text of its except branch, and how
\* the single request ended.
Analyzed(value, message, outcome) ==
    [value |-> value, error |-> message, outcome |-> outcome]

analyze_image(response, message) ==
    IF response.raises THEN Analyzed(None, {message}, "raised")
    ELSE IF response.status = HTTP_OK
    THEN LET parsed == json_loads(Scan(clean_response(response.content), 1))
         IN  IF parsed.ok THEN Analyzed(parsed.v, {}, "parsed")
             ELSE Analyzed(None, {message}, "decode error")
    ELSE Analyzed(None, {}, "status")

analyze_garment_image(response) == analyze_image(response, "Error analyzing image")
analyze_tag_image(response) == analyze_image(response, "Error analyzing tag")

(***************************************************************************)
(* The Add Clothes form (lines 490-545): its defaults from the analyses.   *)
(***************************************************************************)
\* The characters of a string, as Python iterates over it.
Chars(str) == [i \in 1..Len(str) |-> JStr(SubSeq(str, i, i))]

\* for x in v: a list's elements, a str's characters, a dict's keys.
Iterable(v) == TagOf(v) \in {"list", "str", "dict"}
Iterate(v) ==
    CASE TagOf(v) = "list" -> v[2]
      [] TagOf(v) = "str"  -> Chars(v[2])
      [] TagOf(v) = "dict" -> [i \in 1..Len(v[2]) |-> JStr(v[2][i][1])]

\* v in options, for a list of strings
InOptions(v, options) == TagOf(v) = "str" /\ v[2] \in Range(options)

\* [s for s in values if s in options] or [fallback]
ValidOr(values, options, fallback) ==
    LET valid == SelectSeq(Iterate(values), LAMBDA v : InOptions(v, options))
    IN  IF valid = <<>> THEN <<fallback>> ELSE StrsOf(JList(valid))

\* "\n".join(lines) and text.split("\n")
RECURSIVE Join(_)
Join(lines) ==
    IF lines = <<>> THEN ""
    ELSE IF Len(lines) = 1 THEN lines[1]
    ELSE lines[1] \o "\n" \o Join(Tail(lines))

RECURSIVE SplitFrom(_, _)
SplitFrom(text, i) ==
    IF i > Len(text) THEN <<text>>
    ELSE IF SubSeq(text, i, i) = "\n"
    THEN <<SubSeq(text, 1, i - 1)>> \o SplitFrom(DropFirst(text, i), 1)
    ELSE SplitFrom(text, i + 1)
Split(text) == SplitFrom(text, 1)

\* tag.get(key) or ""
TextOr(d, key) ==
    LET v == DictGet(d, key, None) IN IF Truthy(v) THEN v[2] ELSE ""

FormFaulted(exception) ==
    [fault |-> exception, name |-> "", category |-> "", color |-> "", style |-> <<>>,
     occasions |-> <<>>, seasons |-> <<>>, brand |-> "", size |-> "",
     material |-> "", care |-> ""]

\* Mutant: the analyzer's values become the defaults as they are.
FormDefaults_Unvalidated(ai_value, tag_value) ==
    LET ai == IF Truthy(ai_value) THEN ai_value ELSE JDict(<<>>)
        tag == IF Truthy(tag_value) THEN tag_value ELSE JDict(<<>>)
        default_styles == DictGet(ai, "style", JStrList(<<"Casual">>))
        default_occasions == DictGet(ai, "occasions", JStrList(<<"Everyday">>))
        default_seasons == DictGet(ai, "seasons", JStrList(<<"All Season">>))
    IN  IF ~IsDict(ai) \/ ~IsDict(tag) THEN FormFaulted("AttributeError")
        ELSE IF \/ ~Iterable(default_styles)
                \/ ~Iterable(default_occasions)
                \/ ~Iterable(default_seasons)
        THEN FormFaulted("TypeError")
        ELSE [fault |-> "",
              name |-> DictGet(ai, "suggested_name", JStr(""))[2],
              category |-> DictGet(ai, "category", JStr(CATEGORIES[1]))[2],
              color |-> DictGet(ai, "color", JStr(COLORS[1]))[2],
              style |-> StrsOf(JList(Iterate(default_styles))),
              occasions |-> StrsOf(JList(Iterate(default_occasions))),
              seasons |-> StrsOf(JList(Iterate(default_seasons))),
              brand |-> TextOr(tag, "brand"),
              size |-> TextOr(tag, "size"),
              material |-> TextOr(tag, "material"),
              care |-> ""]

\* The values the form's widgets start with, or the exception that the
\* script raises while building the form.
FormDefaults(ai_value, tag_value) ==
    LET ai == IF Truthy(ai_value) THEN ai_value ELSE JDict(<<>>)
        tag == IF Truthy(tag_value) THEN tag_value ELSE JDict(<<>>)
    IN  IF ~IsDict(ai) THEN FormFaulted("AttributeError")
        ELSE IF ~IsDict(tag) THEN FormFaulted("AttributeError")
        ELSE
        LET category_value == DictGet(ai, "category", None)
            category_default ==
                IF InOptions(category_value, CATEGORIES)
                THEN IndexFrom(CATEGORIES, category_value[2], 1) ELSE 0
            color_value == DictGet(ai, "color", None)
            color_default ==
                IF InOptions(color_value, COLORS)
                THEN IndexFrom(COLORS, color_value[2], 1) ELSE 0
            default_styles == DictGet(ai, "style", JStrList(<<"Casual">>))
            default_occasions == DictGet(ai, "occasions", JStrList(<<"Everyday">>))
            default_seasons == DictGet(ai, "seasons", JStrList(<<"All Season">>))
            care_value == DictGet(tag, "care_instructions", None)
        IN  IF \/ ~Iterable(default_styles)
               \/ ~Iterable(default_occasions)
               \/ ~Iterable(default_seasons)
            THEN FormFaulted("TypeError")
            ELSE IF /\ Truthy(care_value)
                    /\ \/ ~Iterable(care_value)
                       \/ \E i \in 1..Len(Iterate(care_value)) :
                              TagOf(Iterate(care_value)[i]) # "str"
            THEN FormFaulted("TypeError")
            ELSE [fault |-> "",
                  name |-> DictGet(ai, "suggested_name", JStr(""))[2],
                  category |-> CATEGORIES[category_default + 1],
                  color |-> COLORS[color_default + 1],
                  style |-> ValidOr(default_styles, STYLES, "Casual"),
                  occasions |-> ValidOr(default_occasions, OCCASIONS, "Everyday"),
                  seasons |-> ValidOr(default_seasons, SEASONS, "All Season"),
                  brand |-> TextOr(tag, "brand"),
                  size |-> TextOr(tag, "size"),
                  material |-> TextOr(tag, "material"),
                  care |-> IF Truthy(care_value)
                           THEN Join(StrsOf(JList(Iterate(care_value))))
                           ELSE ""]

\* What the user leaves as the form shows it.
Keep == "(as shown)"

\* The form as submitted: the defaults, with the user's entries over them.
\* (The user's entries in the other widgets are not modelled: each of them
\* offers its enumeration only.)
SubmittedForm(defaults, edit) ==
    [name |-> IF edit.name = Keep THEN defaults.name ELSE edit.name,
     category |-> IF edit.category = Keep THEN defaults.category ELSE edit.category,
     color |-> defaults.color,
     style |-> defaults.style,
     occasions |-> defaults.occasions,
     seasons |-> defaults.seasons,
     brand |-> defaults.brand,
     size |-> defaults.size,
     material |-> defaults.material,
     care |-> IF defaults.care = "" THEN <<>> ELSE Split(defaults.care)]

\* uploaded_file.name.split(".")[-1]
RECURSIVE Extension(_)
Extension(name) ==
    LET dots == {i \in 1..Len(name) : SubSeq(name, i, i) = "."}
    IN  IF dots = {} THEN name
        ELSE Extension(DropFirst(name, CHOOSE i \in dots : TRUE))

\* save_image(uploaded_file, item_id): the path written
save_image(file_name, item_id) == ImagePath(item_id, Extension(file_name))

\* item_id: the second of the clock and random.randint(1000, 9999)
ItemId(now, rand) == ToString(now) \o "_" \o ToString(rand)
\* datetime.now().isoformat(), to the second
IsoFormat(now) == "T" \o ToString(now)

(***************************************************************************)
(* SpecFence: the clean-up applied to response texts.                      *)
(***************************************************************************)
MaxChunks == 4

Chunks == {"'''", "json", "{}", " ", "\n", "'"}

RECURSIVE Concat(_)
Concat(parts) == IF parts = <<>> THEN "" ELSE Head(parts) \o Concat(Tail(parts))

Texts == {Concat(parts) : parts \in SeqsUpTo(Chunks, MaxChunks)}

NotCleaned == [done |-> FALSE, text |-> ""]

InitFence ==
    /\ content \in Texts
    /\ cleaned = NotCleaned
    /\ wardrobe = EmptyCatalog
    /\ SessionStart
    /\ OutfitIdle
    /\ StoreIdle

CleanResponse ==
    /\ ~cleaned.done
    /\ cleaned' = [done |-> TRUE, text |-> clean_response(content)]
    /\ UNCHANGED <<content, sessionVars, outfitVars, storeVars>>

NextFence == CleanResponse

SpecFence == InitFence /\ [][NextFence]_vars

\* Whether a fence marker occurs in the text.
RECURSIVE HasFence(_)
HasFence(s) ==
    /\ Len(s) >= 3
    /\ (startswith(s, FENCE) \/ HasFence(DropFirst(s, 1)))

\* The text less one leading fence marker, with its "json" tag if it has one,
\* and less one trailing fence marker, where the text has them.
OneFenceEachSide(text) ==
    LET s == strip(text)
        leading == IF startswith(s, JSON_FENCE) THEN 7
                   ELSE IF startswith(s, FENCE) THEN 3
                   ELSE 0
        body == DropFirst(s, leading)
    IN  strip(IF endswith(body, FENCE) THEN DropLast(body, 3) ELSE body)

\* C8: the clean-up removes exactly one optional leading fence marker (with
\* its optional "json" tag) and exactly one optional trailing fence marker,
\* never a second one; a text without fences is only stripped of its
\* surrounding white space.
C8_OneFenceEachSide ==
    cleaned.done =>
        /\ cleaned.text = OneFenceEachSide(content)
        /\ ~HasFence(content) => cleaned.text = strip(content)

(***************************************************************************)
(* The session: one action for each script run that a click starts.  Each  *)
(* run leaves its st.error texts, its unhandled exception and the requests *)
(* it sent in error, fault and http_log.                                   *)
(***************************************************************************)
MaxItems == 2
MaxOutfits == 1
MaxClock == 1
MinItemsToGenerate == 2

\* A file uploader without a file.
NoUpload == ""

\* Mutant: the data file is left as it is.
Saved_NotWritten(w) == disk

\* The data file after save_wardrobe(w).
Saved(w) == FileOf(save_wardrobe(w))

\* bool(st.session_state.current_outfit)
OutfitTruthy(outfit) == outfit # NoOutfit /\ DOMAIN outfit[1] # {}

\* A second passes.
Tick ==
    /\ clock < MaxClock
    /\ clock' = clock + 1
    /\ UNCHANGED <<wardrobe, disk, images, current_outfit, confirm_delete,
                   ai_analysis, tag_analysis, error, fault, http_log,
                   outfitVars, fenceVars, storeVars>>

\* Add Clothes: "Analyze with AI" (lines 466-485), then the form is built.
\* garment and tag are what analyze_garment_image and analyze_tag_image return
\* in this run.
AnalyzeClick(garment_file, tag_file, garment, tag) ==
    LET with_tag == tag_file # NoUpload
        new_tag_analysis == IF with_tag THEN tag.value ELSE tag_analysis
    IN  /\ garment_file # NoUpload
        /\ ai_analysis' = garment.value
        /\ tag_analysis' = new_tag_analysis
        /\ http_log' = <<[analyzer |-> "garment", outcome |-> garment.outcome]>>
                       \o (IF with_tag
                           THEN <<[analyzer |-> "tag", outcome |-> tag.outcome]>>
                           ELSE <<>>)
        /\ error' = garment.error
                    \cup (IF with_tag THEN tag.error ELSE {})
                    \cup (IF Truthy(garment.value) THEN {}
                          ELSE {"Analysis failed. Please try again or enter details manually."})
        /\ fault' = FormDefaults(garment.value, new_tag_analysis).fault
        /\ UNCHANGED <<wardrobe, disk, images, current_outfit, confirm_delete, clock,
                       outfitVars, fenceVars, storeVars>>

\* Add Clothes: "Add to Wardrobe" (lines 490-591).
AddItemSubmit(garment_file, tag_file, edit, rand) ==
    LET defaults == FormDefaults(ai_analysis, tag_analysis)
        form == SubmittedForm(defaults, edit)
        item_id == ItemId(clock, rand)
        image_path == save_image(garment_file, item_id)
        tag_image_path ==
            IF tag_file # NoUpload
            THEN JStr(save_image(tag_file, item_id \o "_tag")) ELSE None
        ai == IF Truthy(ai_analysis) THEN ai_analysis ELSE JDict(<<>>)
        item == new_item(item_id, form, image_path, tag_image_path,
                         DictGet(ai, "pattern", None), IsoFormat(clock))
        added == [wardrobe EXCEPT !.items = Append(@, item)]
    IN  /\ garment_file # NoUpload
        /\ http_log' = <<>>
        /\ IF defaults.fault # ""
           THEN /\ fault' = defaults.fault
                /\ error' = {}
                /\ UNCHANGED <<wardrobe, disk, images, ai_analysis, tag_analysis>>
           ELSE IF form.name = ""
           THEN /\ fault' = ""
                /\ error' = {"Please enter a name for this item."}
                /\ UNCHANGED <<wardrobe, disk, images, ai_analysis, tag_analysis>>
           ELSE /\ fault' = ""
                /\ error' = {}
                /\ images' = images \cup {image_path}
                                \cup (IF tag_file # NoUpload THEN {tag_image_path[2]} ELSE {})
                /\ wardrobe' = added
                /\ disk' = Saved(added)
                /\ ai_analysis' = None
                /\ tag_analysis' = None
        /\ UNCHANGED <<current_outfit, confirm_delete, clock,
                       outfitVars, fenceVars, storeVars>>

\* st.button(..., key=...): a key used a second time in one run raises, and
\* the widgets after it are not drawn.
DuplicateKeys(keys) == \E i, j \in 1..Len(keys) : i < j /\ keys[i] = keys[j]
Drawn(keys, idx) == \A j \in 1..(idx - 1) : keys[j] # keys[idx]
Ids(records) == [i \in 1..Len(records) |-> records[i].id]

\* My Closet: how the run that draws the items ends.
MyClosetFault(w, filter_category) ==
    LET filtered_items ==
            IF filter_category # "All"
            THEN OfCategory(w.items, filter_category) ELSE w.items
    IN  IF DuplicateKeys(Ids(filtered_items)) THEN "DuplicateWidgetID" ELSE ""

\* Saved Outfits: what the expander of each outfit shows (line 666), and how
\* the run that draws them ends.
DisplayedItems(w, outfit_data) ==
    SelectSeq(w.items, LAMBDA item : item.id \in Range(outfit_data.items))
SavedOutfitsFault(w) ==
    IF DuplicateKeys(Ids(w.outfits)) THEN "DuplicateWidgetID" ELSE ""

\* Mutant: the outfits that refer to the item are deleted with it.
DeleteItemClick_Cascade(filter_category, idx) ==
    LET filtered_items ==
            IF filter_category # "All"
            THEN OfCategory(wardrobe.items, filter_category) ELSE wardrobe.items
    IN  /\ wardrobe.items # <<>>
        /\ idx \in 1..Len(filtered_items)
        /\ Drawn(Ids(filtered_items), idx)
        /\ LET item == filtered_items[idx]
               kept == [items |-> SelectSeq(wardrobe.items, LAMBDA i : i.id # item.id),
                        outfits |-> SelectSeq(wardrobe.outfits,
                                              LAMBDA o : item.id \notin Range(o.items))]
           IN  /\ wardrobe' = kept
               /\ images' = images \ {item.image_path}
               /\ disk' = Saved(kept)
               /\ fault' = MyClosetFault(kept, filter_category)
        /\ error' = {}
        /\ http_log' = <<>>
        /\ UNCHANGED <<current_outfit, confirm_delete, ai_analysis, tag_analysis,
                       clock, outfitVars, fenceVars, storeVars>>

\* My Closet: the Delete button of the idx-th item shown (lines 406-424).
DeleteItemClick(filter_category, idx) ==
    LET filtered_items ==
            IF filter_category # "All"
            THEN OfCategory(wardrobe.items, filter_category) ELSE wardrobe.items
    IN  /\ wardrobe.items # <<>>
        /\ idx \in 1..Len(filtered_items)
        /\ Drawn(Ids(filtered_items), idx)
        /\ LET item == filtered_items[idx]
               kept == [wardrobe EXCEPT
                          !.items = SelectSeq(@, LAMBDA i : i.id # item.id)]
           IN  /\ wardrobe' = kept
               /\ images' = images \ {item.image_path}
               /\ disk' = Saved(kept)
               /\ fault' = MyClosetFault(kept, filter_category)
        /\ error' = {}
        /\ http_log' = <<>>
        /\ UNCHANGED <<current_outfit, confirm_delete, ai_analysis, tag_analysis,
                       clock, outfitVars, fenceVars, storeVars>>

\* Generate Outfit: "Generate Random Outfit" (lines 598-615).
GenerateClick(occasion_filter, season_filter, rnd) ==
    LET occasion == IF occasion_filter = "Any" THEN None ELSE JStr(occasion_filter)
        season == IF season_filter = "Any" THEN None ELSE JStr(season_filter)
    IN  /\ Len(wardrobe.items) >= MinItemsToGenerate
        /\ current_outfit' =
              SomeOutfit(generate_smart_outfit(wardrobe, occasion, season, rnd))
        /\ error' = {}
        /\ fault' = ""
        /\ http_log' = <<>>
        /\ UNCHANGED <<wardrobe, disk, images, confirm_delete, ai_analysis,
                       tag_analysis, clock, outfitVars, fenceVars, storeVars>>

\* Mutant: an outfit is saved whatever its name.
SaveOutfitClick_Unnamed(outfit_name) ==
    LET values == OutfitValues(current_outfit[1])
        saved_outfit ==
            [id |-> "outfit_" \o ToString(clock),
             name |-> outfit_name,
             items |-> [i \in 1..Len(values) |-> values[i].id],
             created_date |-> IsoFormat(clock)]
        added == [wardrobe EXCEPT !.outfits = Append(@, saved_outfit)]
    IN  /\ Len(wardrobe.items) >= MinItemsToGenerate
        /\ OutfitTruthy(current_outfit)
        /\ wardrobe' = added
        /\ disk' = Saved(added)
        /\ error' = {}
        /\ fault' = ""
        /\ http_log' = <<>>
        /\ UNCHANGED <<images, current_outfit, confirm_delete, ai_analysis,
                       tag_analysis, clock, outfitVars, fenceVars, storeVars>>

\* Generate Outfit: "Save Outfit" (lines 618-653).
SaveOutfitClick(outfit_name) ==
    LET outfit == current_outfit[1]
        values == OutfitValues(outfit)
        saved_outfit ==
            [id |-> "outfit_" \o ToString(clock),
             name |-> outfit_name,
             items |-> [i \in 1..Len(values) |-> values[i].id],
             created_date |-> IsoFormat(clock)]
        added == [wardrobe EXCEPT !.outfits = Append(@, saved_outfit)]
    IN  /\ Len(wardrobe.items) >= MinItemsToGenerate
        /\ OutfitTruthy(current_outfit)
        /\ IF outfit_name # ""
           THEN /\ wardrobe' = added
                /\ disk' = Saved(added)
                /\ error' = {}
           ELSE /\ error' = {"Please name your outfit before saving."}
                /\ UNCHANGED <<wardrobe, disk>>
        /\ fault' = ""
        /\ http_log' = <<>>
        /\ UNCHANGED <<images, current_outfit, confirm_delete, ai_analysis,
                       tag_analysis, clock, outfitVars, fenceVars, storeVars>>

\* Saved Outfits: "Delete Outfit" of the k-th outfit (lines 677-681).
DeleteOutfitClick(k) ==
    /\ k \in 1..Len(wardrobe.outfits)
    /\ Drawn(Ids(wardrobe.outfits), k)
    /\ LET outfit_data == wardrobe.outfits[k]
           kept == [wardrobe EXCEPT
                      !.outfits = SelectSeq(@, LAMBDA o : o.id # outfit_data.id)]
       IN  /\ wardrobe' = kept
           /\ disk' = Saved(kept)
           /\ fault' = SavedOutfitsFault(kept)
    /\ error' = {}
    /\ http_log' = <<>>
    /\ UNCHANGED <<images, current_outfit, confirm_delete, ai_analysis,
                   tag_analysis, clock, outfitVars, fenceVars, storeVars>>

\* Settings: "Clear All Data" (lines 739-740).
ClearAllClick ==
    /\ confirm_delete' = TRUE
    /\ error' = {}
    /\ fault' = ""
    /\ http_log' = <<>>
    /\ UNCHANGED <<wardrobe, disk, images, current_outfit, ai_analysis,
                   tag_analysis, clock, outfitVars, fenceVars, storeVars>>

\* Mutant: the catalog of the session is emptied and the file is not written.
ConfirmClearClick_NotSaved ==
    /\ confirm_delete
    /\ wardrobe' = [items |-> <<>>, outfits |-> <<>>]
    /\ images' = {}
    /\ confirm_delete' = FALSE
    /\ error' = {}
    /\ fault' = ""
    /\ http_log' = <<>>
    /\ UNCHANGED <<disk, current_outfit, ai_analysis, tag_analysis, clock,
                   outfitVars, fenceVars, storeVars>>

\* Settings: "Yes, delete everything" (lines 742-758).
ConfirmClearClick ==
    /\ confirm_delete
    /\ wardrobe' = [items |-> <<>>, outfits |-> <<>>]
    /\ disk' = Saved(wardrobe')
    /\ images' = {}
    /\ confirm_delete' = FALSE
    /\ error' = {}
    /\ fault' = ""
    /\ http_log' = <<>>
    /\ UNCHANGED <<current_outfit, ai_analysis, tag_analysis, clock,
                   outfitVars, fenceVars, storeVars>>

\* Settings: "Cancel" (lines 760-762).
CancelClearClick ==
    /\ confirm_delete
    /\ confirm_delete' = FALSE
    /\ error' = {}
    /\ fault' = ""
    /\ http_log' = <<>>
    /\ UNCHANGED <<wardrobe, disk, images, current_outfit, ai_analysis,
                   tag_analysis, clock, outfitVars, fenceVars, storeVars>>

(***************************************************************************)
(* Spec: one session on the catalog, the items entered by hand.            *)
(***************************************************************************)
\* random.randint(1000, 9999): with one value, two items added within one
\* second share an id and items added in different seconds do not.
RandIds == {1000}

\* What the user uploads and enters on the Add Clothes page.
Submissions ==
    { [garment_file |-> "shirt.jpg", tag_file |-> "label.png",
       edit |-> [name |-> "Tee", category |-> Keep]],
      [garment_file |-> "boots.final.png", tag_file |-> NoUpload,
       edit |-> [name |-> "Boots", category |-> "Shoes"]],
      [garment_file |-> "shirt.jpg", tag_file |-> NoUpload,
       edit |-> [name |-> Keep, category |-> Keep]] }

OutfitNames == {"", "Monday"}

\* The catalogs of this session hold tops and shoes only: the three
\* threshold draws decide nothing, the choice among the tops and shoes does.
SessionRnds == {rnd \in Rnds : rnd.dress = 50 /\ rnd.outerwear = 61 /\ rnd.accessory = 61}

Init ==
    /\ wardrobe = load_wardrobe(NoFile)
    /\ SessionStart
    /\ OutfitIdle
    /\ FenceIdle
    /\ StoreIdle

Next ==
    \/ Tick
    \/ /\ Len(wardrobe.items) < MaxItems
       /\ \E sub \in Submissions, rand \in RandIds :
              AddItemSubmit(sub.garment_file, sub.tag_file, sub.edit, rand)
    \/ \E filter_category \in {"All", "Shoes"}, idx \in 1..MaxItems :
            DeleteItemClick(filter_category, idx)
    \/ \E occasion_filter \in {"Any", "Work"}, season_filter \in {"Any", "Winter"},
          rnd \in SessionRnds :
            GenerateClick(occasion_filter, season_filter, rnd)
    \/ \E outfit_name \in OutfitNames :
          /\ outfit_name # "" => Len(wardrobe.outfits) < MaxOutfits
          /\ SaveOutfitClick(outfit_name)
    \/ \E k \in 1..MaxOutfits : DeleteOutfitClick(k)
    \/ ClearAllClick
    \/ ConfirmClearClick
    \/ CancelClearClick

Spec == Init /\ [][Next]_vars

\* What deleting the item shown at idx does to the catalog and the images.
ItemDeleted(item) ==
    /\ \A i \in 1..Len(wardrobe'.items) : wardrobe'.items[i].id # item.id
    /\ \A i \in 1..Len(wardrobe.items) :
          wardrobe.items[i].id # item.id =>
             wardrobe.items[i] \in Range(wardrobe'.items)
    /\ Range(wardrobe'.items) \subseteq Range(wardrobe.items)
    /\ item.image_path \notin images'
    /\ wardrobe'.outfits = wardrobe.outfits
    /\ load_wardrobe(disk') = wardrobe'
    /\ SavedOutfitsFault(wardrobe') = SavedOutfitsFault(wardrobe)
    /\ \A k \in 1..Len(wardrobe'.outfits) :
          LET shown == DisplayedItems(wardrobe', wardrobe'.outfits[k])
          IN  \A i \in 1..Len(shown) :
                 /\ shown[i] \in Range(wardrobe'.items)
                 /\ shown[i].id \in Range(wardrobe'.outfits[k].items)
                 /\ shown[i].id # item.id

\* C5: deleting an item removes it from the items of the catalog (in memory
\* and on disk) and removes its image file; every saved outfit stays as it
\* was, those that refer to the deleted id too; the Saved Outfits page then
\* shows, for each outfit, only items of the catalog whose id the outfit
\* refers to, and its run ends as it did before the deletion: the reference
\* left dangling raises nothing.
C5_DeleteItemKeepsOutfits ==
    [][\A filter_category \in {"All", "Shoes"}, idx \in 1..MaxItems :
          DeleteItemClick(filter_category, idx) =>
             ItemDeleted((IF filter_category # "All"
                          THEN OfCategory(wardrobe.items, filter_category)
                          ELSE wardrobe.items)[idx])]_vars

\* A saved outfit of two ids, one of them of a deleted item: the page shows
\* the one item left, and the image of the deleted item is gone.
C5_Witness ==
    \E k \in 1..Len(wardrobe.outfits) :
        LET outfit_data == wardrobe.outfits[k]
            ids == {wardrobe.items[i].id : i \in 1..Len(wardrobe.items)}
        IN  /\ Len(outfit_data.items) = 2
            /\ \E id \in Range(outfit_data.items) :
                  /\ id \notin ids
                  /\ \A path \in images : ~startswith(path, IMAGES_DIR \o "/" \o id \o ".")
            /\ Len(DisplayedItems(wardrobe, outfit_data)) = 1
            /\ SavedOutfitsFault(wardrobe) = ""

\* C6: "Save Outfit" with an empty name shows an error and leaves the catalog
\* in memory and the data file as they were; with a name it appends one
\* outfit, whose items are the ids of the items of the generated outfit, and
\* leaves the items of the catalog as they were, in memory and on disk.
C6_SaveOutfitNamed ==
    [][\A outfit_name \in OutfitNames :
          SaveOutfitClick(outfit_name) =>
             IF outfit_name = ""
             THEN /\ error' # {}
                  /\ wardrobe' = wardrobe
                  /\ disk' = disk
             ELSE LET values == OutfitValues(current_outfit[1])
                      n == Len(wardrobe.outfits)
                  IN  /\ Len(wardrobe'.outfits) = n + 1
                      /\ SubSeq(wardrobe'.outfits, 1, n) = wardrobe.outfits
                      /\ wardrobe'.outfits[n + 1].name = outfit_name
                      /\ wardrobe'.outfits[n + 1].items =
                            [i \in 1..Len(values) |-> values[i].id]
                      /\ wardrobe'.items = wardrobe.items
                      /\ error' = {}
                      /\ load_wardrobe(disk') = wardrobe']_vars

\* A save without a name was refused after a save with a name was made.
C6_Witness ==
    /\ error = {"Please name your outfit before saving."}
    /\ Len(wardrobe.outfits) = 1
    /\ wardrobe.outfits[1].name = "Monday"
    /\ wardrobe.outfits[1].items # <<>>
    /\ load_wardrobe(disk) = wardrobe


(***************************************************************************)
(* SpecAnalyze: analyses and item additions, over the responses the chat   *)
(* completion endpoint can give.                                           *)
(***************************************************************************)
GarmentResponses ==
    { Raised,
      Responded(500, ""),
      Responded(HTTP_OK, "I can not see a garment."),
      Responded(HTTP_OK, "[]"),
      Responded(HTTP_OK,
        "'''json\n{\"category\": \"Shoes\", \"color\": \"Brown\", \"style\": [\"Casual\"], \"occasions\": [\"Outdoor\"], \"seasons\": [\"Fall\", \"Winter\"], \"pattern\": \"solid\", \"suggested_name\": \"Brown Boots\"}\n'''"),
      Responded(HTTP_OK,
        "{\"category\": \"Hat\", \"color\": \"Teal\", \"style\": [\"Grunge\", \"Casual\"], \"occasions\": [\"Gala\"], \"seasons\": \"Winter\", \"pattern\": \"tie-dye\", \"suggested_name\": \"Teal Hat\"}"),
      Responded(HTTP_OK, "{\"category\": \"Top\", \"style\": null, \"suggested_name\": \"Tee\"}"),
      Responded(HTTP_OK, "\"a white shirt\"") }

TagResponses ==
    { Raised,
      Responded(HTTP_OK,
        "{\"brand\": \"Acme\", \"size\": null, \"material\": \"Cotton\", \"care_instructions\": [\"Wash cold\", \"Hang dry\"], \"country\": null}"),
      Responded(HTTP_OK, "[7]") }

AnalyzeUploads ==
    { [garment_file |-> "shirt.jpg", tag_file |-> "label.png"],
      [garment_file |-> "boots.final.png", tag_file |-> NoUpload] }

AnalyzeEdits == { [name |-> Keep, category |-> Keep], [name |-> "Mine", category |-> Keep] }

\* The analyzers on these responses.
GarmentAnalysis == [response \in GarmentResponses |-> analyze_garment_image(response)]
TagAnalysis == [response \in TagResponses |-> analyze_tag_image(response)]

MaxAnalyzedItems == 1

InitAnalyze == Init

NextAnalyze ==
    \/ \E up \in AnalyzeUploads, garment_response \in GarmentResponses,
          tag_response \in TagResponses :
            AnalyzeClick(up.garment_file, up.tag_file,
                         GarmentAnalysis[garment_response], TagAnalysis[tag_response])
    \/ /\ Len(wardrobe.items) < MaxAnalyzedItems
       /\ \E up \in AnalyzeUploads, edit \in AnalyzeEdits, rand \in RandIds :
              AddItemSubmit(up.garment_file, up.tag_file, edit, rand)

SpecAnalyze == InitAnalyze /\ [][NextAnalyze]_vars

FailureOutcomes == {"raised", "status", "decode error"}

\* C9: an analysis sends one request per analyzer and none again; a request
\* that ends in a network error, a status other than 200 or a decode error
\* leaves None as the analysis; and no run of the Add Clothes page ends in an
\* unhandled exception, whatever the analyzers returned: the form is built
\* and can be submitted.
C9_NoAnalyzerOutcomeFatal ==
    /\ \A i, j \in 1..Len(http_log) :
          http_log[i].analyzer = http_log[j].analyzer => i = j
    /\ \A i \in 1..Len(http_log) :
          http_log[i].outcome \in FailureOutcomes =>
             IF http_log[i].analyzer = "garment"
             THEN ai_analysis = None ELSE tag_analysis = None
    /\ fault = ""

InEnumerations(item) ==
    /\ item.category \in Range(CATEGORIES)
    /\ item.color \in Range(COLORS)
    /\ Range(item.style) \subseteq Range(STYLES)
    /\ Range(item.occasions) \subseteq Range(OCCASIONS)
    /\ Range(item.seasons) \subseteq Range(SEASONS)

\* C10: after any sequence of analyses and item additions, every item of the
\* catalog has its category in CATEGORIES, its color in COLORS and each of
\* its style, occasion and season entries in STYLES, OCCASIONS and SEASONS:
\* a value of the analysis outside the enumeration is replaced by the default.
C10_ItemsWithinEnumerations ==
    \A i \in 1..Len(wardrobe.items) : InEnumerations(wardrobe.items[i])

\* An item added from the analysis {"category": "Hat", "color": "Teal", ...}:
\* the defaults stand where the analysis was outside the enumeration, and
\* the one style entry inside it is kept.
C10_Witness ==
    \E i \in 1..Len(wardrobe.items) :
        LET item == wardrobe.items[i] IN
        /\ item.pattern = JStr("tie-dye")
        /\ item.name = "Teal Hat"
        /\ item.category = CATEGORIES[1]
        /\ item.color = COLORS[1]
        /\ item.style = <<"Casual">>
        /\ item.occasions = <<"Everyday">>
        /\ item.seasons = <<"All Season">>

(***************************************************************************)
(* SpecIds: items added and deleted, seconds passing, with two values of   *)
(* random.randint: two items added within one second may or may not draw   *)
(* the same number.                                                        *)
(***************************************************************************)
MaxIdItems == 2
ItemRandIds == {1000, 1001}

InitIds == Init

NextIds ==
    \/ Tick
    \/ /\ Len(wardrobe.items) < MaxIdItems
       /\ \E sub \in Submissions, rand \in ItemRandIds :
              AddItemSubmit(sub.garment_file, sub.tag_file, sub.edit, rand)
    \/ \E filter_category \in {"All", "Shoes"}, idx \in 1..MaxIdItems :
            DeleteItemClick(filter_category, idx)

SpecIds == InitIds /\ [][NextIds]_vars

UniqueIds(items) ==
    \A i, j \in 1..Len(items) : items[i].id = items[j].id => i = j

\* C11: after every add-item and delete-item step no two items of the
\* catalog share an id, two items added within the same second included,
\* and an item that stays in the catalog keeps the id it was created with
\* (the step changes no item; at most one item is new).
C11_ItemIdsUniqueAndFixed ==
    [][/\ UniqueIds(wardrobe'.items)
       /\ Cardinality(Range(wardrobe'.items) \ Range(wardrobe.items)) <= 1
       /\ \A i \in 1..Len(wardrobe.items) :
             \/ wardrobe.items[i] \in Range(wardrobe'.items)
             \/ \A j \in 1..Len(wardrobe'.items) :
                   wardrobe'.items[j].id # wardrobe.items[i].id]_vars

(***************************************************************************)
(* SpecShared: the session and a second instance of the application on the *)
(* same data file.  The session loaded the catalog when it started         *)
(* (line 331) and every later run works on st.session_state.wardrobe.      *)
(***************************************************************************)
\* The item the second instance adds: entered by hand there, saved with its
\* image.
OtherItem ==
    new_item("0_2000",
             SubmittedForm(FormDefaults(None, None),
                           [name |-> "Scarf", category |-> "Accessory"]),
             save_image("scarf.jpg", "0_2000"), None, None, IsoFormat(0))

\* The second instance adds its item: it appends to the catalog it loaded
\* (here: just before) and rewrites the data file.
OtherInstanceAdd ==
    LET persisted == load_wardrobe(disk)
    IN  /\ OtherItem \notin Range(persisted.items)
        /\ disk' = Saved([persisted EXCEPT !.items = Append(@, OtherItem)])
        /\ images' = images \cup {OtherItem.image_path}
        /\ UNCHANGED <<wardrobe, current_outfit, confirm_delete, ai_analysis,
                       tag_analysis, clock, error, fault, http_log,
                       outfitVars, fenceVars, storeVars>>

\* What the user of the session adds: shirts, with and without a name.
SharedSubmissions == {sub \in Submissions : sub.garment_file = "shirt.jpg"}

SharedAdd ==
    \E sub \in SharedSubmissions, rand \in ItemRandIds :
        AddItemSubmit(sub.garment_file, sub.tag_file, sub.edit, rand)
SharedDeleteItem ==
    \E filter_category \in {"All", "Shoes"}, idx \in 1..MaxItems :
        DeleteItemClick(filter_category, idx)
SharedSaveOutfit == \E outfit_name \in OutfitNames : SaveOutfitClick(outfit_name)
SharedDeleteOutfit == \E k \in 1..MaxOutfits : DeleteOutfitClick(k)

InitShared == Init

NextShared ==
    \/ OtherInstanceAdd
    \/ Len(wardrobe.items) < MaxItems /\ SharedAdd
    \/ SharedDeleteItem
    \/ \E rnd \in SessionRnds : GenerateClick("Any", "Any", rnd)
    \/ Len(wardrobe.outfits) < MaxOutfits /\ SharedSaveOutfit
    \/ SharedDeleteOutfit
    \/ ClearAllClick
    \/ ConfirmClearClick

SpecShared == InitShared /\ [][NextShared]_vars

\* The five changes, as functions of the catalog they are applied to.
ItemAdded(catalog, item) == [catalog EXCEPT !.items = Append(@, item)]
ItemRemoved(catalog, id) ==
    [catalog EXCEPT !.items = SelectSeq(@, LAMBDA i : i.id # id)]
OutfitAdded(catalog, outfit_data) == [catalog EXCEPT !.outfits = Append(@, outfit_data)]
OutfitRemoved(catalog, id) ==
    [catalog EXCEPT !.outfits = SelectSeq(@, LAMBDA o : o.id # id)]
Cleared(catalog) == [items |-> <<>>, outfits |-> <<>>]

\* This step of the session applied one change to the catalog `before` and
\* left the result in the data file.
ChangeWrittenTo(before) ==
    LET after == load_wardrobe(disk')
    IN  /\ (SharedAdd /\ wardrobe' # wardrobe) =>
              \E item \in Range(wardrobe'.items) : after = ItemAdded(before, item)
        /\ SharedDeleteItem =>
              \E item \in Range(wardrobe.items) :
                  /\ wardrobe' = ItemRemoved(wardrobe, item.id)
                  /\ after = ItemRemoved(before, item.id)
        /\ (SharedSaveOutfit /\ wardrobe' # wardrobe) =>
              \E outfit_data \in Range(wardrobe'.outfits) :
                  after = OutfitAdded(before, outfit_data)
        /\ SharedDeleteOutfit =>
              \E outfit_data \in Range(wardrobe.outfits) :
                  /\ wardrobe' = OutfitRemoved(wardrobe, outfit_data.id)
                  /\ after = OutfitRemoved(before, outfit_data.id)
        /\ ConfirmClearClick => after = Cleared(before)

\* C12 as stated: after each mutation of the session (add item, delete item,
\* add outfit, delete outfit, clear all) the data file holds the catalog it
\* held just before the mutation with that one change applied, also when
\* the second instance wrote the file after the session loaded it.
C12_ChangeToPersisted == [][ChangeWrittenTo(load_wardrobe(disk))]_vars

\* C12 amended: after each mutation the data file holds the catalog of the
\* session (loaded once, at the start) with that one change applied, and
\* the session holds the same; this is the persisted catalog with the change
\* applied when the file still held what the session holds.
C12_ChangeToSession ==
    [][/\ ChangeWrittenTo(wardrobe)
       /\ disk' # disk /\ wardrobe' # wardrobe => load_wardrobe(disk') = wardrobe'
       /\ load_wardrobe(disk) = wardrobe => ChangeWrittenTo(load_wardrobe(disk))]_vars

\* The second instance added its item and saved the image; then the session
\* wrote the file: the file holds the items of the session and not the item
\* of the second instance.
C12_Witness ==
    /\ OtherItem.image_path \in images
    /\ disk.exists
    /\ load_wardrobe(disk) = wardrobe
    /\ wardrobe.items # <<>>
    /\ OtherItem \notin Range(load_wardrobe(disk).items)

(***************************************************************************)
(* Settings: the export (lines 723-731).                                   *)
(***************************************************************************)
\* json.dumps(wardrobe, indent=2), as its tokens
export_data(w) == json_dumps(PyCatalog(w))

\* C13: in one session, once a mutation has written the data file, the
\* catalog of the session is the catalog the file holds and the exported
\* JSON is the text of the file; until then there is no file and the
\* session holds the empty catalog.
C13_SessionIsPersisted ==
    IF disk.exists
    THEN /\ load_wardrobe(disk) = wardrobe
         /\ export_data(wardrobe) = disk.text
    ELSE wardrobe = [items |-> <<>>, outfits |-> <<>>]

\* Items and a saved outfit in the catalog, and the export is the file.
C13_Witness ==
    /\ disk.exists
    /\ Len(wardrobe.items) = MaxItems
    /\ wardrobe.outfits # <<>>
    /\ export_data(wardrobe) = disk.text

\* The image files of an item: its garment image and, if it has one, its
\* tag image.
ImagesOf(item) ==
    {item.image_path}
        \cup (IF item.tag_image_path = None THEN {} ELSE {item.tag_image_path[2]})

\* C14: after every add-item, delete-item and clear-all step each file of the
\* image directory is the garment image or the tag image of an item of the
\* catalog (a deleted item leaves neither behind), and when the catalog has
\* been cleared the image directory is empty with it.
C14_ImagesOfCatalogItems ==
    /\ \A path \in images :
          \E i \in 1..Len(wardrobe.items) : path \in ImagesOf(wardrobe.items[i])
    /\ wardrobe = [items |-> <<>>, outfits |-> <<>>] => images = {}

(***************************************************************************)
(* SpecSaved: outfits generated, saved and deleted in a session that found *)
(* a catalog of three items in the data file, seconds passing.             *)
(***************************************************************************)
MaxSavedOutfits == 2

\* The catalog the data file holds when the session starts.
SavedItems ==
    <<new_item("0_1000",
               SubmittedForm(FormDefaults(None, None),
                             [name |-> "Tee", category |-> Keep]),
               save_image("shirt.jpg", "0_1000"), None, None, IsoFormat(0)),
      new_item("0_1001",
               SubmittedForm(FormDefaults(None, None),
                             [name |-> "Boots", category |-> "Shoes"]),
               save_image("boots.final.png", "0_1001"), None, None, IsoFormat(0)),
      new_item("0_1002",
               SubmittedForm(FormDefaults(None, None),
                             [name |-> "Shirt", category |-> Keep]),
               save_image("shirt.jpg", "0_1002"), None, None, IsoFormat(0))>>

SavedOutfitNames == {"", "Monday", "Friday"}

InitSaved ==
    /\ disk = Saved([items |-> SavedItems, outfits |-> <<>>])
    /\ images = {SavedItems[i].image_path : i \in 1..Len(SavedItems)}
    /\ wardrobe = load_wardrobe(disk)
    /\ current_outfit = NoOutfit
    /\ confirm_delete = FALSE
    /\ ai_analysis = None
    /\ tag_analysis = None
    /\ clock = 0
    /\ error = {}
    /\ fault = ""
    /\ http_log = <<>>
    /\ OutfitIdle
    /\ FenceIdle
    /\ StoreIdle

NextSaved ==
    \/ Tick
    \/ \E rnd \in SessionRnds : GenerateClick("Any", "Any", rnd)
    \/ \E outfit_name \in SavedOutfitNames :
          /\ outfit_name # "" => Len(wardrobe.outfits) < MaxSavedOutfits
          /\ SaveOutfitClick(outfit_name)
    \/ \E k \in 1..MaxSavedOutfits : DeleteOutfitClick(k)

SpecSaved == InitSaved /\ [][NextSaved]_vars

\* s without its k-th element
WithoutIndex(s, k) == SubSeq(s, 1, k - 1) \o SubSeq(s, k + 1, Len(s))

\* C15: "Delete Outfit" on the k-th saved outfit removes that one record and
\* leaves the other saved outfits and all the items as they were, also when
\* two outfits were saved within the same second.
C15_DeleteOutfitRemovesOne ==
    [][\A k \in 1..MaxSavedOutfits :
          DeleteOutfitClick(k) =>
             /\ wardrobe'.outfits = WithoutIndex(wardrobe.outfits, k)
             /\ wardrobe'.items = wardrobe.items
             /\ load_wardrobe(disk') = wardrobe']_vars

====
